---- MODULE Spec2Model ----
(***************************************************************************)
(* A model of pmp_check.py: a RISC-V Physical Memory Protection checker.   *)
(* main() parses its command line, loads a configuration file of hex       *)
(* lines, builds one PMPRegion per entry and scans the regions in index    *)
(* order; the first region that contains the address decides the access.   *)
(*                                                                         *)
(* Text is modelled as sequences of one-character strings, so that         *)
(* int(s, 16), str.strip, str.upper and str.startswith are computed on     *)
(* the characters.  Python integers are unbounded: no operation wraps.     *)
(***************************************************************************)
EXTENDS Integers, Sequences, FiniteSets, TLC

VARIABLES
    argv,         \* sys.argv: a sequence of strings (argv[1] is the script)
    file,         \* the lines of the configuration file, as read
    pc,           \* position of main(): args, load, for, cto, matches, exit
    phys_addr,    \* main's phys_addr
    mode,         \* main's mode (after upper())
    operation,    \* main's operation (after upper())
    pmpcfg,       \* main's pmpcfg list
    pmpaddr,      \* main's pmpaddr list
    regions,      \* main's regions list of PMPRegion objects
    any_pmp,      \* main's any_pmp
    idx,          \* number of regions the for loop has fetched so far
    x,            \* count_trailing_ones: local x
    count,        \* count_trailing_ones: local count
    bnds,         \* matches: (lower, upper) returned by region_bounds
    output,       \* the line printed
    exit_status,  \* the process's exit status
    consulted     \* history: 0-based indices of the regions matches() was called on

vars == <<argv, file, pc, phys_addr, mode, operation, pmpcfg, pmpaddr, regions,
          any_pmp, idx, x, count, bnds, output, exit_status, consulted>>

(***************************************************************************)
(* Bounds of the model                                                     *)
(***************************************************************************)
\* Entries per configuration (the program fixes 64; see EntryCount)
NumEntries == 2

\* Iterations of count_trailing_ones the model follows before it stops
\* following a run that does not end
MaxCount == 8

\* Largest raw address of the entries whose decoding is explored
MaxRaw == 15

\* Largest value the field a of a PMPRegion object is given
MaxModeValue == 5

\* Largest exponent k of a NAPOT size 2^k
MaxExp == 7

(***************************************************************************)
(* Text                                                                    *)
(***************************************************************************)
HexLower == <<"0","1","2","3","4","5","6","7","8","9","a","b","c","d","e","f">>

HexDigits ==
    {"0","1","2","3","4","5","6","7","8","9","a","b","c","d","e","f",
     "A","B","C","D","E","F"}

IsHexDigit(c) == c \in HexDigits

DigitVal(c) ==
    CASE c = "0" -> 0 [] c = "1" -> 1 [] c = "2" -> 2 [] c = "3" -> 3
      [] c = "4" -> 4 [] c = "5" -> 5 [] c = "6" -> 6 [] c = "7" -> 7
      [] c = "8" -> 8 [] c = "9" -> 9
      [] c \in {"a", "A"} -> 10 [] c \in {"b", "B"} -> 11
      [] c \in {"c", "C"} -> 12 [] c \in {"d", "D"} -> 13
      [] c \in {"e", "E"} -> 14 [] c \in {"f", "F"} -> 15

\* str.upper on one character of the alphabet the inputs use
UpperCh(c) ==
    CASE c = "a" -> "A" [] c = "b" -> "B" [] c = "c" -> "C" [] c = "d" -> "D"
      [] c = "e" -> "E" [] c = "f" -> "F" [] c = "g" -> "G" [] c = "m" -> "M"
      [] c = "s" -> "S" [] c = "u" -> "U" [] c = "r" -> "R" [] c = "w" -> "W"
      [] c = "x" -> "X" [] OTHER -> c

upper(s) == [i \in 1..Len(s) |-> UpperCh(s[i])]

startswith(s, p) == Len(s) >= Len(p) /\ SubSeq(s, 1, Len(p)) = p

RECURSIVE lstrip(_)
lstrip(s) == IF s # <<>> /\ Head(s) = " " THEN lstrip(Tail(s)) ELSE s

RECURSIVE rstrip(_)
rstrip(s) ==
    IF s # <<>> /\ s[Len(s)] = " " THEN rstrip(SubSeq(s, 1, Len(s) - 1)) ELSE s

strip(s) == rstrip(lstrip(s))

RECURSIVE DigitsValue(_, _)
DigitsValue(s, acc) ==
    IF s = <<>> THEN acc ELSE DigitsValue(Tail(s), 16 * acc + DigitVal(Head(s)))

\* int(s, 16): surrounding blanks, an optional sign, an optional 0x/0X, then
\* one or more hex digits; anything else raises ValueError (ok = FALSE).
int16(s) ==
    LET t == strip(s)
        neg == t # <<>> /\ Head(t) = "-"
        u == IF t # <<>> /\ Head(t) \in {"-", "+"} THEN Tail(t) ELSE t
        d == IF startswith(u, <<"0","x">>) \/ startswith(u, <<"0","X">>)
             THEN SubSeq(u, 3, Len(u)) ELSE u
    IN  IF d # <<>> /\ \A i \in 1..Len(d) : IsHexDigit(d[i])
        THEN [ok |-> TRUE, val |-> IF neg THEN 0 - DigitsValue(d, 0) ELSE DigitsValue(d, 0)]
        ELSE [ok |-> FALSE, val |-> 0]

(***************************************************************************)
(* Integer bit operations, as Python computes them on unbounded integers   *)
(***************************************************************************)
shl(v, k) == v * (2 ^ k)

shr(v, k) == v \div (2 ^ k)

\* v & 1
and1(v) == v % 2

\* v & ~((1 << n) - 1)
clear_low(v, n) == v - (v % (2 ^ n))

(***************************************************************************)
(* class PMPRegion                                                         *)
(***************************************************************************)
\* A PMPRegion that reads the mode from bits 5-4
PMPRegion_shift4(index, cfg, addr, all_pmpaddr) ==
    [index |-> index, cfg |-> cfg, addr |-> addr, all_pmpaddr |-> all_pmpaddr,
     L |-> and1(shr(cfg, 7)),
     a |-> shr(cfg, 4) % 4,
     X |-> and1(shr(cfg, 4)),
     W |-> and1(shr(cfg, 3)),
     R |-> and1(shr(cfg, 2))]

PMPRegion(index, cfg, addr, all_pmpaddr) ==
    [index |-> index, cfg |-> cfg, addr |-> addr, all_pmpaddr |-> all_pmpaddr,
     L |-> and1(shr(cfg, 7)),
     a |-> shr(cfg, 5) % 4,
     X |-> and1(shr(cfg, 4)),
     W |-> and1(shr(cfg, 3)),
     R |-> and1(shr(cfg, 2))]

\* (None, None)
NoRegion == [none |-> TRUE, lower |-> 0, upper |-> 0]

Bounds(lo, hi) == [none |-> FALSE, lower |-> lo, upper |-> hi]

\* A region_bounds whose NAPOT size is 2^(n+2)
region_bounds_half_napot(self, n) ==
    IF self.a = 0 THEN NoRegion
    ELSE IF self.a = 1
         THEN Bounds(IF self.index = 0 THEN 0
                     ELSE shl(self.all_pmpaddr[(self.index - 1) + 1], 2),
                     shl(self.addr, 2))
    ELSE IF self.a = 2
         THEN Bounds(shl(self.addr, 2), shl(self.addr, 2) + 4)
    ELSE IF self.a = 3
         THEN Bounds(shl(clear_low(self.addr, n), 2),
                     shl(clear_low(self.addr, n), 2) + shl(1, n + 2))
    ELSE NoRegion

\* A region_bounds whose TOR lower bound is read at the entry's own index
region_bounds_tor_own_index(self, n) ==
    IF self.a = 0 THEN NoRegion
    ELSE IF self.a = 1
         THEN Bounds(IF self.index = 0 THEN 0
                     ELSE shl(self.all_pmpaddr[self.index + 1], 2),
                     shl(self.addr, 2))
    ELSE IF self.a = 2
         THEN Bounds(shl(self.addr, 2), shl(self.addr, 2) + 4)
    ELSE IF self.a = 3
         THEN Bounds(shl(clear_low(self.addr, n), 2),
                     shl(clear_low(self.addr, n), 2) + shl(1, n + 3))
    ELSE NoRegion

\* region_bounds; n is what count_trailing_ones(self.addr) returned (read
\* only in the NAPOT branch)
region_bounds(self, n) ==
    IF self.a = 0 THEN NoRegion
    ELSE IF self.a = 1
         THEN Bounds(IF self.index = 0 THEN 0
                     ELSE shl(self.all_pmpaddr[(self.index - 1) + 1], 2),
                     shl(self.addr, 2))
    ELSE IF self.a = 2
         THEN Bounds(shl(self.addr, 2), shl(self.addr, 2) + 4)
    ELSE IF self.a = 3
         THEN Bounds(shl(clear_low(self.addr, n), 2),
                     shl(clear_low(self.addr, n), 2) + shl(1, n + 3))
    ELSE NoRegion

\* matches, after region_bounds has returned b
matches(b, addr) ==
    IF b.none THEN FALSE ELSE b.lower <= addr /\ addr < b.upper

\* A permits that reads the write bit for execute and the execute bit for write
permits_swapped(self, op, priv_mode) ==
    IF op = <<"R">> /\ self.R = 1 THEN TRUE
    ELSE IF op = <<"W">> /\ self.X = 1 THEN TRUE
    ELSE IF op = <<"X">> /\ self.W = 1 THEN TRUE
    ELSE FALSE

permits(self, op, priv_mode) ==
    IF op = <<"R">> /\ self.R = 1 THEN TRUE
    ELSE IF op = <<"W">> /\ self.W = 1 THEN TRUE
    ELSE IF op = <<"X">> /\ self.X = 1 THEN TRUE
    ELSE FALSE

(***************************************************************************)
(* main: the command line                                                  *)
(***************************************************************************)
\* The number of entries main() builds (64 in the program)
EntryCount == NumEntries

Modes == {<<"M">>, <<"S">>, <<"U">>}

Operations == {<<"R">>, <<"W">>, <<"X">>}

Exit(msg, status) ==
    /\ pc' = "exit"
    /\ output' = msg
    /\ exit_status' = status

ArgsUsage ==
    /\ pc = "args"
    /\ Len(argv) # 5
    /\ Exit("Usage", 1)
    /\ UNCHANGED <<argv, file, phys_addr, mode, operation, pmpcfg, pmpaddr,
                   regions, any_pmp, idx, x, count, bnds, consulted>>

ArgsBadPrefix ==
    /\ pc = "args"
    /\ Len(argv) = 5
    /\ ~startswith(argv[3], <<"0","x">>)
    /\ Exit("Invalid address format", 1)
    /\ mode' = upper(argv[4])
    /\ operation' = upper(argv[5])
    /\ UNCHANGED <<argv, file, phys_addr, pmpcfg, pmpaddr,
                   regions, any_pmp, idx, x, count, bnds, consulted>>

ArgsBadValue ==
    /\ pc = "args"
    /\ Len(argv) = 5
    /\ startswith(argv[3], <<"0","x">>)
    /\ ~int16(argv[3]).ok
    /\ Exit("Invalid address value", 1)
    /\ mode' = upper(argv[4])
    /\ operation' = upper(argv[5])
    /\ UNCHANGED <<argv, file, phys_addr, pmpcfg, pmpaddr,
                   regions, any_pmp, idx, x, count, bnds, consulted>>

ArgsBadMode ==
    /\ pc = "args"
    /\ Len(argv) = 5
    /\ startswith(argv[3], <<"0","x">>)
    /\ int16(argv[3]).ok
    /\ upper(argv[4]) \notin Modes
    /\ Exit("Invalid privilege mode", 1)
    /\ phys_addr' = int16(argv[3]).val
    /\ mode' = upper(argv[4])
    /\ operation' = upper(argv[5])
    /\ UNCHANGED <<argv, file, pmpcfg, pmpaddr,
                   regions, any_pmp, idx, x, count, bnds, consulted>>

ArgsBadOp ==
    /\ pc = "args"
    /\ Len(argv) = 5
    /\ startswith(argv[3], <<"0","x">>)
    /\ int16(argv[3]).ok
    /\ upper(argv[4]) \in Modes
    /\ upper(argv[5]) \notin Operations
    /\ Exit("Invalid operation", 1)
    /\ phys_addr' = int16(argv[3]).val
    /\ mode' = upper(argv[4])
    /\ operation' = upper(argv[5])
    /\ UNCHANGED <<argv, file, pmpcfg, pmpaddr,
                   regions, any_pmp, idx, x, count, bnds, consulted>>

ArgsOk ==
    /\ pc = "args"
    /\ Len(argv) = 5
    /\ startswith(argv[3], <<"0","x">>)
    /\ int16(argv[3]).ok
    /\ upper(argv[4]) \in Modes
    /\ upper(argv[5]) \in Operations
    /\ pc' = "load"
    /\ phys_addr' = int16(argv[3]).val
    /\ mode' = upper(argv[4])
    /\ operation' = upper(argv[5])
    /\ UNCHANGED <<argv, file, pmpcfg, pmpaddr, regions, any_pmp, idx, x, count,
                   bnds, output, exit_status, consulted>>

(***************************************************************************)
(* main: the configuration file                                            *)
(***************************************************************************)
\* [line.strip() for line in f if line.strip()]
NonEmptyLines(f) ==
    SelectSeq([i \in 1..Len(f) |-> strip(f[i])], LAMBDA l : l # <<>>)

LoadBadCount ==
    /\ pc = "load"
    /\ Len(NonEmptyLines(file)) # 2 * EntryCount
    /\ Exit("Configuration file must have exactly 128 non-empty lines", 1)
    /\ UNCHANGED <<argv, file, phys_addr, mode, operation, pmpcfg, pmpaddr,
                   regions, any_pmp, idx, x, count, bnds, consulted>>

LoadBadValue ==
    /\ pc = "load"
    /\ LET lines == NonEmptyLines(file)
       IN  /\ Len(lines) = 2 * EntryCount
           /\ \E i \in 1..Len(lines) : ~int16(lines[i]).ok
    /\ Exit("Error reading configuration file", 1)
    /\ UNCHANGED <<argv, file, phys_addr, mode, operation, pmpcfg, pmpaddr,
                   regions, any_pmp, idx, x, count, bnds, consulted>>

LoadOk ==
    /\ pc = "load"
    /\ LET lines == NonEmptyLines(file)
       IN  /\ Len(lines) = 2 * EntryCount
           /\ \A i \in 1..Len(lines) : int16(lines[i]).ok
           /\ pmpcfg' = [i \in 1..EntryCount |-> int16(lines[i]).val]
           /\ pmpaddr' = [i \in 1..EntryCount |-> int16(lines[EntryCount + i]).val]
    /\ regions' = [i \in 1..EntryCount |->
                     PMPRegion(i - 1, pmpcfg'[i], pmpaddr'[i], pmpaddr')]
    /\ any_pmp' = (\E i \in 1..EntryCount : shr(pmpcfg'[i], 5) % 4 # 0)
    /\ pc' = "for"
    /\ UNCHANGED <<argv, file, phys_addr, mode, operation, idx, x, count, bnds,
                   output, exit_status, consulted>>

(***************************************************************************)
(* main: the scan                                                          *)
(***************************************************************************)
\* The for loop fetches the next region and calls matches on it; for every
\* mode but NAPOT region_bounds returns at once.
ForNextDirect ==
    /\ pc = "for"
    /\ idx < Len(regions)
    /\ regions[idx + 1].a # 3
    /\ idx' = idx + 1
    /\ consulted' = Append(consulted, idx)
    /\ bnds' = region_bounds(regions[idx + 1], 0)
    /\ pc' = "matches"
    /\ UNCHANGED <<argv, file, phys_addr, mode, operation, pmpcfg, pmpaddr,
                   regions, any_pmp, x, count, output, exit_status>>

\* In NAPOT mode region_bounds calls count_trailing_ones(self.addr).
ForNextNapot ==
    /\ pc = "for"
    /\ idx < Len(regions)
    /\ regions[idx + 1].a = 3
    /\ idx' = idx + 1
    /\ consulted' = Append(consulted, idx)
    /\ x' = regions[idx + 1].addr
    /\ count' = 0
    /\ pc' = "cto"
    /\ UNCHANGED <<argv, file, phys_addr, mode, operation, pmpcfg, pmpaddr,
                   regions, any_pmp, bnds, output, exit_status>>

\* An iteration that does not shift x
count_trailing_ones_iter_noshift ==
    /\ pc = "cto"
    /\ and1(x) = 1
    /\ count < MaxCount
    /\ count' = count + 1
    /\ UNCHANGED <<argv, file, pc, phys_addr, mode, operation, pmpcfg, pmpaddr,
                   regions, any_pmp, idx, x, bnds, output, exit_status, consulted>>

\* count_trailing_ones: one iteration of while x & 1
count_trailing_ones_iter ==
    /\ pc = "cto"
    /\ and1(x) = 1
    /\ count < MaxCount
    /\ count' = count + 1
    /\ x' = shr(x, 1)
    /\ UNCHANGED <<argv, file, pc, phys_addr, mode, operation, pmpcfg, pmpaddr,
                   regions, any_pmp, idx, bnds, output, exit_status, consulted>>

\* count_trailing_ones returns count; region_bounds returns to matches
count_trailing_ones_return ==
    /\ pc = "cto"
    /\ and1(x) = 0
    /\ bnds' = region_bounds(regions[idx], count)
    /\ pc' = "matches"
    /\ UNCHANGED <<argv, file, phys_addr, mode, operation, pmpcfg, pmpaddr,
                   regions, any_pmp, idx, x, count, output, exit_status, consulted>>

NotMatched ==
    /\ pc = "matches"
    /\ ~matches(bnds, phys_addr)
    /\ pc' = "for"
    /\ UNCHANGED <<argv, file, phys_addr, mode, operation, pmpcfg, pmpaddr,
                   regions, any_pmp, idx, x, count, bnds, output, exit_status,
                   consulted>>

\* A Decision that leaves out the Machine-mode bypass
DecisionNoBypass(region, op, priv_mode) ==
    IF permits(region, op, priv_mode) THEN "Access allowed" ELSE "Access fault"

\* The decision main() prints for the region that matched
Decision(region, op, priv_mode) ==
    IF priv_mode = <<"M">> /\ region.L = 0 THEN "Access allowed"
    ELSE IF permits(region, op, priv_mode) THEN "Access allowed"
    ELSE "Access fault"

\* A Matched that prints and does not return: the scan goes on
MatchedNoReturn ==
    /\ pc = "matches"
    /\ matches(bnds, phys_addr)
    /\ output' = Decision(regions[idx], operation, mode)
    /\ pc' = "for"
    /\ UNCHANGED <<argv, file, phys_addr, mode, operation, pmpcfg, pmpaddr,
                   regions, any_pmp, idx, x, count, bnds, exit_status, consulted>>

Matched ==
    /\ pc = "matches"
    /\ matches(bnds, phys_addr)
    /\ Exit(Decision(regions[idx], operation, mode), 0)
    /\ UNCHANGED <<argv, file, phys_addr, mode, operation, pmpcfg, pmpaddr,
                   regions, any_pmp, idx, x, count, bnds, consulted>>

\* A DefaultDecision that does not look at any_pmp
DefaultDecisionNoAny(any, priv_mode) ==
    IF priv_mode \in {<<"S">>, <<"U">>} THEN "Access fault" ELSE "Access allowed"

\* The decision main() prints when no region matched
DefaultDecision(any, priv_mode) ==
    IF any /\ priv_mode \in {<<"S">>, <<"U">>} THEN "Access fault"
    ELSE "Access allowed"

Exhausted ==
    /\ pc = "for"
    /\ idx = Len(regions)
    /\ Exit(DefaultDecision(any_pmp, mode), 0)
    /\ UNCHANGED <<argv, file, phys_addr, mode, operation, pmpcfg, pmpaddr,
                   regions, any_pmp, idx, x, count, bnds, consulted>>

Scan ==
    \/ ForNextDirect
    \/ ForNextNapot
    \/ count_trailing_ones_iter
    \/ count_trailing_ones_return
    \/ NotMatched
    \/ Matched
    \/ Exhausted

Next ==
    \/ ArgsUsage
    \/ ArgsBadPrefix
    \/ ArgsBadValue
    \/ ArgsBadMode
    \/ ArgsBadOp
    \/ ArgsOk
    \/ LoadBadCount
    \/ LoadBadValue
    \/ LoadOk
    \/ Scan

(***************************************************************************)
(* Inputs                                                                  *)
(***************************************************************************)
\* A value 0..255 as a line of the file holds it: two hex digits
Hex2(v) == <<HexLower[(v \div 16) + 1], HexLower[(v % 16) + 1]>>

\* A configuration byte from its fields
Cfg(l, a, p) == 128 * l + 32 * a + 4 * p

Script == <<"pmp_check.py">>

ConfigName == <<"pmp_config.txt">>

Argv(addr, m, o) == <<Script, ConfigName, <<"0", "x">> \o Hex2(addr), m, o>>

File(cfgs, addrs) ==
    [i \in 1..(2 * NumEntries) |->
        IF i <= NumEntries THEN Hex2(cfgs[i]) ELSE Hex2(addrs[i - NumEntries])]

\* Raw addresses (or configuration bytes) that are all zero
ZeroEntries == [i \in 1..NumEntries |-> 0]

Start(av, fl) ==
    /\ argv = av
    /\ file = fl
    /\ pc = "args"
    /\ phys_addr = 0
    /\ mode = <<>>
    /\ operation = <<>>
    /\ pmpcfg = <<>>
    /\ pmpaddr = <<>>
    /\ regions = <<>>
    /\ any_pmp = FALSE
    /\ idx = 0
    /\ x = 0
    /\ count = 0
    /\ bnds = NoRegion
    /\ output = ""
    /\ exit_status = 0
    /\ consulted = <<>>

\* Command lines main() rejects, and ones it accepts after upper()
OddArgvs ==
    { <<Script, ConfigName, <<"0","x","0","0">>, <<"M">> >>,
      <<Script, ConfigName, <<"0","x","0","0">>, <<"M">>, <<"R">>, <<"R">> >>,
      <<Script, ConfigName, <<"0","0">>, <<"M">>, <<"R">> >>,
      <<Script, ConfigName, <<"0","X","0","0">>, <<"M">>, <<"R">> >>,
      <<Script, ConfigName, <<"0","x">>, <<"M">>, <<"R">> >>,
      <<Script, ConfigName, <<"0","x","1","g">>, <<"S">>, <<"R">> >>,
      <<Script, ConfigName, <<"0","x","-","1">>, <<"S">>, <<"R">> >>,
      <<Script, ConfigName, <<"0","x","0","0">>, <<"Q">>, <<"R">> >>,
      <<Script, ConfigName, <<"0","x","0","0">>, <<"M","M">>, <<"R">> >>,
      <<Script, ConfigName, <<"0","x","0","0">>, <<>>, <<"R">> >>,
      <<Script, ConfigName, <<"0","x","0","0">>, <<"U">>, <<"Q">> >>,
      <<Script, ConfigName, <<"0","x","0","0">>, <<"U">>, <<"r","w">> >>,
      <<Script, ConfigName, <<"0","x","0","4">>, <<"s">>, <<"x">> >>,
      <<Script, ConfigName, <<"0","x","0","A">>, <<"u">>, <<"w">> >>,
      <<Script, ConfigName, <<"0","x","0","0"," ">>, <<"m">>, <<"r">> >> }

\* A file of NAPOT entries at raw address 0, read and write allowed, locked
PlainFile == File([i \in 1..NumEntries |-> Cfg(1, 3, 3)], ZeroEntries)

\* Files with a line changed, dropped or added
OddFiles ==
    { SubSeq(PlainFile, 1, 2 * NumEntries - 1),
      Append(PlainFile, <<"0","0">>),
      <<>>,
      <<<<>>>> \o PlainFile \o <<<<" ">>, <<>>>>,
      [PlainFile EXCEPT ![1] = <<" ","9","C"," ">>],
      [PlainFile EXCEPT ![1] = <<"0","x","9","c">>],
      [PlainFile EXCEPT ![1] = <<"+","9","c">>],
      [PlainFile EXCEPT ![1] = <<"9"," ","c">>],
      [PlainFile EXCEPT ![1] = <<"z","z">>],
      [PlainFile EXCEPT ![2 * NumEntries] = <<"1","g">>],
      [PlainFile EXCEPT ![2 * NumEntries] = <<"0","x">>],
      [PlainFile EXCEPT ![1] = <<"1","f","f">>],
      [PlainFile EXCEPT ![1] = <<"-","6","4">>],
      [PlainFile EXCEPT ![NumEntries + 1] = <<"-","2">>],
      [PlainFile EXCEPT ![NumEntries + 1] = <<"-","1">>] }

OddRequests == {Argv(p, m, o) : p \in {0, 8}, m \in {<<"M">>, <<"S">>}, o \in {<<"R">>, <<"X">>}}

\* The inputs <<argv, file>> every specification of main() starts from
\* besides its own
OddInputs ==
    {<<av, PlainFile>> : av \in OddArgvs}
        \cup {<<av, fl>> : av \in OddRequests, fl \in OddFiles}

(***************************************************************************)
(* Spec: main() on configurations that differ in lock, mode and            *)
(* permission bits                                                         *)
(***************************************************************************)
\* <<mode field, raw address>>: NAPOT [0, 8); NA4 [4, 8)
DecisionModes == {<<3, 0>>, <<2, 1>>}

\* <<configuration byte, raw address>> of one entry: either mode with every
\* lock bit and permission bits, or OFF
DecisionEntries ==
    {<<Cfg(l, m[1], p), m[2]>> : l \in 0..1, p \in 0..7, m \in DecisionModes}
        \cup {<<Cfg(0, 0, 0), 0>>, <<Cfg(1, 0, 7), 0>>}

DecisionAddrs == {0, 4, 8}

\* Files with at most two entries that are not zero
PairFiles(entries) ==
    {File([k \in 1..NumEntries |-> IF k = i THEN e[1] ELSE IF k = j THEN f[1] ELSE 0],
          [k \in 1..NumEntries |-> IF k = i THEN e[2] ELSE IF k = j THEN f[2] ELSE 0]) :
        i \in 1..NumEntries, j \in 1..NumEntries, e \in entries, f \in entries}

DecisionInputs ==
    {<<Argv(p, m, o), fl>> :
        p \in DecisionAddrs, m \in Modes, o \in Operations,
        fl \in PairFiles(DecisionEntries)}

Init == \E in \in OddInputs \cup DecisionInputs : Start(in[1], in[2])

Spec == Init /\ [][Next]_vars

(***************************************************************************)
(* SpecDecode: main() on configurations that differ in the mode and raw    *)
(* address of one entry and of the entry before it                         *)
(***************************************************************************)
\* Configuration bytes of the entry explored: every mode with read allowed,
\* and OFF with the lock bit and the permission bits set or clear
DecodeCfgs ==
    {Cfg(0, a, 1) : a \in 0..3} \cup {Cfg(l, 0, p) : l \in 0..1, p \in {0, 2, 7}}

DecodeFiles ==
    {File([k \in 1..NumEntries |->
              IF k = j THEN c ELSE IF k = j - 1 THEN Cfg(0, pm, 1) ELSE 0],
          [k \in 1..NumEntries |->
              IF k = j THEN ad ELSE IF k = j - 1 THEN pad ELSE 0]) :
        j \in 1..NumEntries, c \in DecodeCfgs, ad \in 0..MaxRaw,
        pm \in {0, 2}, pad \in 0..MaxRaw}

DecodeAddrs == {0, 4, 8, 31, 60, 128}

DecodeInputs ==
    {<<Argv(p, <<"S">>, <<"R">>), fl>> : p \in DecodeAddrs, fl \in DecodeFiles}

InitDecode == \E in \in OddInputs \cup DecodeInputs : Start(in[1], in[2])

SpecDecode == InitDecode /\ [][Next]_vars

(***************************************************************************)
(* SpecObject: the scan of main() over PMPRegion objects whose field a     *)
(* holds any small value, as a caller of the class can set it              *)
(***************************************************************************)
ObjectAddrs == {0, 1, 3}

InitObject ==
    \E cfgs \in [1..NumEntries -> {Cfg(0, 0, 1), Cfg(1, 3, 6)}],
       addrs \in [1..NumEntries -> ObjectAddrs],
       as \in [1..NumEntries -> 0..MaxModeValue],
       p \in {0, 4, 16}, m \in Modes, o \in {<<"R">>, <<"W">>} :
        /\ argv = Argv(p, m, o)
        /\ file = File(cfgs, addrs)
        /\ pc = "for"
        /\ phys_addr = p
        /\ mode = m
        /\ operation = o
        /\ pmpcfg = cfgs
        /\ pmpaddr = addrs
        /\ regions = [i \in 1..NumEntries |->
                        [PMPRegion(i - 1, cfgs[i], addrs[i], addrs) EXCEPT !.a = as[i]]]
        /\ any_pmp = (\E i \in 1..NumEntries : shr(cfgs[i], 5) % 4 # 0)
        /\ idx = 0
        /\ x = 0
        /\ count = 0
        /\ bnds = NoRegion
        /\ output = ""
        /\ exit_status = 0
        /\ consulted = <<>>

SpecObject == InitObject /\ [][Scan]_vars

(***************************************************************************)
(* SpecFair: the scan of main() always takes its next step: main() is the  *)
(* only process and no step of the scan waits for anything                 *)
(***************************************************************************)
\* <<configuration byte, raw address>>: OFF; NAPOT at raw 0, 1, 255; NA4; TOR
FairEntries ==
    {<<Cfg(0, 0, 0), 0>>, <<Cfg(0, 3, 1), 0>>, <<Cfg(1, 3, 2), 1>>,
     <<Cfg(1, 3, 7), 255>>, <<Cfg(0, 2, 4), 1>>, <<Cfg(1, 1, 1), 2>>}

FairInputs ==
    {<<Argv(p, m, o),
       File([i \in 1..NumEntries |-> es[i][1]], [i \in 1..NumEntries |-> es[i][2]])>> :
        p \in {0, 4, 8, 255}, m \in Modes, o \in Operations,
        es \in [1..NumEntries -> FairEntries]}

InitFair == \E in \in OddInputs \cup FairInputs : Start(in[1], in[2])

SpecFair == InitFair /\ [][Next]_vars /\ WF_vars(Scan)

(***************************************************************************)
(* What the claims speak of                                                *)
(***************************************************************************)
Allowed == "Access allowed"

Fault == "Access fault"

\* The fields of a configuration byte, by bit position
LockBit(cfg) == (cfg \div 128) % 2

ModeField(cfg) == (cfg \div 32) % 4

PermissionSet(cfg) ==
    {o \in Operations :
        \/ o = <<"X">> /\ (cfg \div 16) % 2 = 1
        \/ o = <<"W">> /\ (cfg \div 8) % 2 = 1
        \/ o = <<"R">> /\ (cfg \div 4) % 2 = 1}

\* The number of trailing one bits of v >= 0
RECURSIVE TrailingOnes(_)
TrailingOnes(v) == IF v % 2 = 1 THEN 1 + TrailingOnes(v \div 2) ELSE 0

\* Bitwise or of two naturals
RECURSIVE BitOr(_, _)
BitOr(m, n) ==
    IF m = 0 THEN n
    ELSE IF n = 0 THEN m
    ELSE 2 * BitOr(m \div 2, n \div 2) + (IF m % 2 = 1 \/ n % 2 = 1 THEN 1 ELSE 0)

\* The canonical NAPOT raw address of base b and size 2^k: the base in
\* address-register units OR (size/8 - 1)
Canonical(b, k) == BitOr(b \div 4, ((2 ^ k) \div 8) - 1)

\* main() printed a decision and returned
Decided == pc = "exit" /\ exit_status = 0

\* Every raw address of the configuration is unsigned
Unsigned == \A i \in 1..Len(pmpaddr) : pmpaddr[i] >= 0

\* The entries (1-based) whose region contains the address
Matching ==
    {i \in 1..Len(regions) :
        matches(region_bounds(regions[i], TrailingOnes(regions[i].addr)), phys_addr)}

FirstMatch == CHOOSE i \in Matching : \A j \in Matching : i <= j

\* bnds holds what region_bounds returned for the region fetched last
BoundsValid == idx >= 1 /\ pc \in {"matches", "for", "exit"}

\* C1: when two or more entries' regions contain the address, the decision
\* is the one the lowest-index matching entry alone gives (Allowed when the
\* mode is Machine and that entry is unlocked, else Allowed exactly when the
\* operation is among that entry's permissions), whatever the higher-index
\* matching entries hold.
C1_FirstMatchWins ==
    (Decided /\ Unsigned /\ Cardinality(Matching) >= 2) =>
        LET cfg == pmpcfg[FirstMatch]
        IN  output = IF mode = <<"M">> /\ LockBit(cfg) = 0 THEN Allowed
                     ELSE IF operation \in PermissionSet(cfg) THEN Allowed
                     ELSE Fault

\* Two entries contain the address, they would decide differently, and the
\* decision is made
C1_Witness ==
    /\ Decided /\ Unsigned
    /\ Cardinality(Matching) >= 2
    /\ mode = <<"S">>
    /\ \E j \in Matching :
          (operation \in PermissionSet(pmpcfg[j]))
              # (operation \in PermissionSet(pmpcfg[FirstMatch]))

\* C2: when the first entry whose region contains the address is unlocked
\* and the mode is Machine, the decision is Allowed, for every operation and
\* every permission bits of that entry.
C2_MachineBypass ==
    (Decided /\ Unsigned /\ Matching # {} /\ mode = <<"M">>
       /\ LockBit(pmpcfg[FirstMatch]) = 0) => output = Allowed

\* Machine mode, an unlocked first match with no permission at all
C2_Witness ==
    /\ Decided /\ Unsigned /\ Matching # {} /\ mode = <<"M">>
    /\ LockBit(pmpcfg[FirstMatch]) = 0
    /\ PermissionSet(pmpcfg[FirstMatch]) = {}
    /\ operation = <<"W">>
    /\ output = Allowed

\* C3: when the first matching entry is locked and the mode is Machine, or
\* the mode is Supervisor or User, the decision is Allowed if and only if
\* the operation is in the permission set of bits 4-2 (Execute 4, Write 3,
\* Read 2), and Fault otherwise.
C3_PermissionEnforced ==
    (Decided /\ Unsigned /\ Matching # {}
       /\ ~(mode = <<"M">> /\ LockBit(pmpcfg[FirstMatch]) = 0)) =>
        /\ output \in {Allowed, Fault}
        /\ output = Allowed <=> operation \in PermissionSet(pmpcfg[FirstMatch])

\* Machine mode on a locked first match that allows read and write only, and
\* an execute request that faults
C3_Witness ==
    /\ Decided /\ Unsigned /\ Matching # {} /\ mode = <<"M">>
    /\ LockBit(pmpcfg[FirstMatch]) = 1
    /\ PermissionSet(pmpcfg[FirstMatch]) = {<<"R">>, <<"W">>}
    /\ operation = <<"X">>
    /\ output = Fault

\* C4: when no entry's region contains the address, the decision is Fault if
\* and only if the mode is Supervisor or User and some entry's mode field is
\* not OFF; otherwise it is Allowed.
C4_NoMatchDefault ==
    (Decided /\ Unsigned /\ Matching = {}) =>
        /\ output \in {Allowed, Fault}
        /\ output = Fault <=>
              /\ mode \in {<<"S">>, <<"U">>}
              /\ \E i \in 1..Len(pmpcfg) : ModeField(pmpcfg[i]) # 0

\* No entry contains the address, one entry is not OFF, User mode: Fault
C4_Witness ==
    /\ Decided /\ Unsigned /\ Matching = {}
    /\ mode = <<"U">>
    /\ \E i \in 1..Len(pmpcfg) : ModeField(pmpcfg[i]) # 0
    /\ output = Fault

\* The bases the round trip is tried on: every multiple of 8 up to the
\* largest raw address explored
Bases == {b \in 0..(4 * MaxRaw) : b % 8 = 0}

\* C5 (as amended): for every size S = 2^k, k >= 3, and every base B that is
\* a multiple of S, decoding the canonical NAPOT raw address (B/4 OR
\* (S/8 - 1)) gives exactly the region [B, B+S).
C5_NapotRoundTrip ==
    (BoundsValid /\ ModeField(pmpcfg[idx]) = 3) =>
        \A k \in 3..MaxExp : \A b \in Bases :
            (b % (2 ^ k) = 0 /\ pmpaddr[idx] = Canonical(b, k)) =>
                bnds = Bounds(b, b + 2 ^ k)

\* The canonical raw address of [16, 32) has been decoded
C5_Witness ==
    /\ pc = "matches"
    /\ ModeField(pmpcfg[idx]) = 3
    /\ pmpaddr[idx] = Canonical(16, 4)
    /\ count = 1
    /\ bnds = Bounds(16, 32)

\* C5 as claimed: the same for every base B that is a multiple of 8.
C5_AnyAlignedBase ==
    (BoundsValid /\ ModeField(pmpcfg[idx]) = 3) =>
        \A k \in 3..MaxExp : \A b \in Bases :
            pmpaddr[idx] = Canonical(b, k) => bnds = Bounds(b, b + 2 ^ k)

\* C6: a TOR entry at index 0 with raw address a has the region [0, a<<2);
\* at index i > 0 it has [p<<2, a<<2), p the raw address of entry i-1
\* whatever that entry's mode; when a<<2 <= p<<2 the region contains no
\* address, nothing fails, and the scan goes on to the next entry.
C6_TorDecoding ==
    (BoundsValid /\ ModeField(pmpcfg[idx]) = 1) =>
        LET lower == IF idx = 1 THEN 0 ELSE 4 * pmpaddr[idx - 1]
            upper_ == 4 * pmpaddr[idx]
        IN  /\ bnds = Bounds(lower, upper_)
            /\ upper_ <= lower =>
                  /\ \A q \in DecodeAddrs \cup {phys_addr} : ~matches(bnds, q)
                  /\ pc = "exit" => (exit_status = 0 /\ idx = Len(regions))

\* A TOR entry after an OFF entry of a larger raw address: the region is
\* empty and the scan has gone on
C6_Witness ==
    /\ pc = "for"
    /\ idx = 2
    /\ ModeField(pmpcfg[2]) = 1
    /\ ModeField(pmpcfg[1]) = 0
    /\ pmpaddr[1] = 3
    /\ pmpaddr[2] = 2
    /\ phys_addr = 8
    /\ bnds = Bounds(12, 8)

\* C7: an entry whose mode field is 0 has no region and contains no address,
\* whatever its lock bit, permission bits and raw address; the scan goes on
\* past it.
C7_OffNeverMatches ==
    (BoundsValid /\ ModeField(pmpcfg[idx]) = 0) =>
        /\ bnds = NoRegion
        /\ \A q \in DecodeAddrs \cup {phys_addr} : ~matches(bnds, q)
        /\ pc = "exit" => (exit_status = 0 /\ idx = Len(regions))

\* An OFF entry that is locked, allows everything and has raw address 1 was
\* passed by a request for address 4
C7_Witness ==
    /\ pc = "for"
    /\ idx = 1
    /\ pmpcfg[1] = Cfg(1, 0, 7)
    /\ pmpaddr[1] = 1
    /\ phys_addr = 4
    /\ bnds = NoRegion

\* The inputs C8 calls malformed
Malformed ==
    \/ Len(argv) = 5 /\ upper(argv[4]) \notin Modes
    \/ Len(argv) = 5 /\ upper(argv[5]) \notin Operations
    \/ LET lines == NonEmptyLines(file)
       IN  \/ Len(lines) # 2 * EntryCount
           \/ \E i \in 1..Len(lines) : ~int16(lines[i]).ok
           \/ \E i \in 1..EntryCount : int16(lines[i]).val \notin 0..255
           \/ \E i \in (EntryCount + 1)..(2 * EntryCount) : int16(lines[i]).val < 0

\* C8: a malformed input (wrong line count, a line that is not hexadecimal,
\* a configuration value that does not fit in 8 bits, a negative address
\* value, an unknown mode or operation) ends in an error and a non-zero exit
\* status; no region is built, the scan is not reached, no decision printed.
C8_RejectedAtBoundary ==
    \/ /\ regions = <<>>
       /\ pc \notin {"for", "cto", "matches"}
       /\ pc = "exit" => (exit_status # 0 /\ output \notin {Allowed, Fault})
    \/ ~Malformed

WellFormed ==
    /\ \A i \in 1..Len(pmpcfg) : pmpcfg[i] >= 0
    /\ \A i \in 1..Len(pmpaddr) : pmpaddr[i] >= 0

\* One of MatchedAllow, MatchedFault, ExhaustedAllow, ExhaustedFault
Terminal == Decided /\ output \in {Allowed, Fault}

\* The scan is about to fetch its first region
Scanning0 == pc = "for" /\ idx = 0

ScanOrder ==
    /\ Len(consulted) = idx
    /\ \A i \in 1..idx : consulted[i] = i - 1
    /\ idx <= EntryCount
    /\ WellFormed => \A i \in 1..(idx - 1) : i \notin Matching
    /\ (regions # <<>> /\ WellFormed) => exit_status = 0

\* C10: on every well-formed input the scan starts at index 0, consults the
\* entries in strictly increasing order, at most EntryCount of them and none
\* after the first match, raises no error, and ends in one of the four
\* outcomes; count_trailing_ones ends for every unsigned raw address.
C10_TotalAndTerminates == []ScanOrder /\ ((Scanning0 /\ WellFormed) ~> Terminal)

\* A well-formed run that counted the eight trailing ones of raw address ff
\* in its second entry and ended
C10_Witness ==
    /\ WellFormed
    /\ Terminal
    /\ consulted = <<0, 1>>
    /\ regions[2].a = 3
    /\ regions[2].addr = 255
    /\ count = 8

====
